---- MODULE Spec2Model ----
(***************************************************************************)
(* fatass: bounded top-K selection of the largest files (src/main.rs).     *)
(* Two specifications share this module:                                   *)
(*   Spec        the main loop of main() over the collected walker, then   *)
(*               the mapping of biggest_files into the output table;       *)
(*   SpecSearch  one call of reverse_binary_search_insert_index, executed  *)
(*               one loop iteration per step, on an arbitrary slice.       *)
(* Indices (low, high, mid, insert positions) are 0-based as in the Rust   *)
(* code; TLA+ sequences are 1-based, so arr[mid] is written a[mid + 1].    *)
(***************************************************************************)
EXTENDS Integers, Sequences, FiniteSets, TLC

VARIABLES fatass_count, walker, pos, biggest_files, reordered, pc,
          tabled_files, branch, sorts,
          arr, target_size, low, high, result, s_pc

vars == <<fatass_count, walker, pos, biggest_files, reordered, pc,
          tabled_files, branch, sorts,
          arr, target_size, low, high, result, s_pc>>

mainVars == <<fatass_count, walker, pos, biggest_files, reordered, pc,
              tabled_files, branch, sorts>>

searchVars == <<arr, target_size, low, high, result, s_pc>>

----------------------------------------------------------------------------
(* Bounds of the model *)

MaxK == 3

MaxLen == 5

MaxSize == 3

(* The two concrete input streams of the specification's scenarios *)
Scenario1 == <<10, 50, 20, 5, 100, 30>>

Scenario2 == <<10, 50>>

Sizes == 1..MaxSize

RECURSIVE SeqsOfLen(_, _)
SeqsOfLen(S, n) ==
    IF n = 0 THEN {<<>>}
    ELSE {Append(s, x) : s \in SeqsOfLen(S, n - 1), x \in S}

SeqsUpTo(S, n) == UNION {SeqsOfLen(S, k) : k \in 0..n}

Min2(x, y) == IF x < y THEN x ELSE y

Max2(x, y) == IF x > y THEN x ELSE y

----------------------------------------------------------------------------
(* Data *)

FileData(path, size) == [path |-> path, size |-> size]

FileDataTable(Path, Size) == [Path |-> Path, Size |-> Size]

(* Option<usize> and the two other ways control leaves the search code *)
Some(i) == <<"Some", i>>

None == <<"None">>

Panic == <<"Panic">>

NoReturn == <<"NoReturn">>

UnitStep == 1024

NumUnits == 8

Suffixes == <<"Bytes", "KB", "MB", "GB", "TB", "PB", "EB", "ZB", "YB">>

(* The loop of get_str_size: the value is num/den, k units were consumed *)
RECURSIVE ScaleSize(_, _, _)
ScaleSize(num, den, k) ==
    IF k = NumUnits \/ num < UnitStep * den
    THEN [num |-> num, den |-> den, k |-> k]
    ELSE ScaleSize(num, den * UnitStep, k + 1)

(* The rendered string "<whole>[.<frac>] <suffix>" as a record; frac = -1   *)
(* stands for the {:.0} form, otherwise frac is the two decimal digits.     *)
get_str_size(fd) ==
    LET sc   == ScaleSize(fd.size, 1, 0)
        q    == (sc.num * 100) \div sc.den
        r    == (sc.num * 100) % sc.den
        rnd  == IF 2 * r > sc.den \/ (2 * r = sc.den /\ q % 2 = 1)
                THEN q + 1 ELSE q
    IN  IF sc.num % sc.den = 0
        THEN [whole |-> sc.num \div sc.den, frac |-> -1,
              suffix |-> Suffixes[sc.k + 1]]
        ELSE [whole |-> rnd \div 100, frac |-> rnd % 100,
              suffix |-> Suffixes[sc.k + 1]]

----------------------------------------------------------------------------
(* Vec operations used by main *)

IsDesc(v) == \A i, j \in 1..Len(v) : i < j => v[i].size >= v[j].size

(* Vec::insert(i, e), i 0-based *)
InsertAt(v, i, e) == SubSeq(v, 1, i) \o <<e>> \o SubSeq(v, i + 1, Len(v))

(* Vec::pop, result discarded *)
Pop(v) == SubSeq(v, 1, Len(v) - 1)

InsertNoPop(v, i, e) == InsertAt(v, i, e)

(* biggest_files.insert(i, file_data); biggest_files.pop(); *)
InsertPop(v, i, e) == Pop(InsertAt(v, i, e))

(* Stable insertion of e into a list ordered by the comparator b.size.cmp(a.size) *)
RECURSIVE StableInsertDesc(_, _)
StableInsertDesc(v, e) ==
    IF v = <<>> THEN <<e>>
    ELSE IF v[Len(v)].size >= e.size
         THEN Append(v, e)
         ELSE Append(StableInsertDesc(SubSeq(v, 1, Len(v) - 1), e), v[Len(v)])

(* biggest_files.sort_by(|a, b| b.size.cmp(&a.size)): stable, descending *)
RECURSIVE SortDescBySize(_)
SortDescBySize(v) ==
    IF v = <<>> THEN <<>>
    ELSE StableInsertDesc(SortDescBySize(SubSeq(v, 1, Len(v) - 1)), v[Len(v)])

----------------------------------------------------------------------------
(* reverse_binary_search_insert_index *)

RejectsOrEqual(a, t) == t <= a[Len(a)].size

(* line 87: target_size < &arr[arr.len() - 1].size *)
Rejects(a, t) == t < a[Len(a)].size

LoopBodySwapped(a, t, lo, hi) ==
    LET mid == (lo + hi) \div 2
    IN  IF a[mid + 1].size = t
        THEN [low |-> lo, high |-> hi, ret |-> Some(mid)]
        ELSE IF a[mid + 1].size < t
             THEN [low |-> mid + 1, high |-> hi, ret |-> NoReturn]
             ELSE [low |-> lo, high |-> mid, ret |-> NoReturn]

(* One iteration of the while loop, lines 92-98 *)
LoopBody(a, t, lo, hi) ==
    LET mid == (lo + hi) \div 2
    IN  IF a[mid + 1].size = t
        THEN [low |-> lo, high |-> hi, ret |-> Some(mid)]
        ELSE IF a[mid + 1].size < t
             THEN [low |-> lo, high |-> mid, ret |-> NoReturn]
             ELSE [low |-> mid + 1, high |-> hi, ret |-> NoReturn]

RECURSIVE SearchLoop(_, _, _, _)
SearchLoop(a, t, lo, hi) ==
    IF lo = hi THEN Some(lo)
    ELSE LET r == LoopBody(a, t, lo, hi)
         IN  IF r.ret # NoReturn THEN r.ret
             ELSE SearchLoop(a, t, r.low, r.high)

(* The whole call.  arr.len() - 1 on an empty slice underflows usize: the   *)
(* debug build panics on the subtraction, the release build wraps and       *)
(* panics on the out-of-range index; both abort the process.                *)
reverse_binary_search_insert_index(a, t) ==
    IF Len(a) = 0 THEN Panic
    ELSE IF Rejects(a, t) THEN None
    ELSE SearchLoop(a, t, 0, Len(a))

----------------------------------------------------------------------------
(* Spec: the main loop *)

Inputs == SeqsUpTo(Sizes, MaxLen) \cup {Scenario1, Scenario2}

InitSearchIdle ==
    /\ arr = <<>>
    /\ target_size = 0
    /\ low = 0
    /\ high = 0
    /\ result = None
    /\ s_pc = "idle"

Init ==
    /\ fatass_count \in 0..MaxK
    /\ walker \in Inputs
    /\ pos = 1
    /\ biggest_files = <<>>
    /\ reordered = FALSE
    /\ pc = "loop"
    /\ tabled_files = <<>>
    /\ branch = "none"
    /\ sorts = 0
    /\ InitSearchIdle

file_data == FileData(pos, walker[pos])

InLoop == pc = "loop" /\ pos <= Len(walker)

(* lines 178-180 *)
Fill ==
    /\ InLoop
    /\ Len(biggest_files) < fatass_count
    /\ biggest_files' = Append(biggest_files, file_data)
    /\ pos' = pos + 1
    /\ branch' = "push"
    /\ UNCHANGED <<fatass_count, walker, reordered, pc, tabled_files, sorts>>
    /\ UNCHANGED searchVars

(* lines 181-184: the entry of this iteration is not stored *)
Reorder ==
    /\ InLoop
    /\ ~(Len(biggest_files) < fatass_count)
    /\ Len(biggest_files) = fatass_count /\ reordered = FALSE
    /\ biggest_files' = SortDescBySize(biggest_files)
    /\ reordered' = TRUE
    /\ sorts' = sorts + 1
    /\ pos' = pos + 1
    /\ branch' = "sort"
    /\ UNCHANGED <<fatass_count, walker, pc, tabled_files>>
    /\ UNCHANGED searchVars

(* lines 185-191 *)
Splice ==
    /\ InLoop
    /\ ~(Len(biggest_files) < fatass_count)
    /\ ~(Len(biggest_files) = fatass_count /\ reordered = FALSE)
    /\ LET i == reverse_binary_search_insert_index(biggest_files, file_data.size)
       IN  IF i = Panic
           THEN /\ pc' = "panicked"
                /\ branch' = "panic"
                /\ UNCHANGED <<biggest_files, pos>>
           ELSE IF i = None
           THEN /\ branch' = "skip"
                /\ pos' = pos + 1
                /\ UNCHANGED <<biggest_files, pc>>
           ELSE /\ biggest_files' = InsertPop(biggest_files, i[2], file_data)
                /\ branch' = "splice"
                /\ pos' = pos + 1
                /\ UNCHANGED pc
    /\ UNCHANGED <<fatass_count, walker, reordered, tabled_files, sorts>>
    /\ UNCHANGED searchVars

(* lines 197-202, after the loop *)
Render ==
    /\ pc = "loop"
    /\ pos > Len(walker)
    /\ tabled_files' = [k \in 1..Len(biggest_files) |->
                          FileDataTable(biggest_files[k].path,
                                        get_str_size(biggest_files[k]))]
    /\ pc' = "done"
    /\ UNCHANGED <<fatass_count, walker, pos, biggest_files, reordered,
                   branch, sorts>>
    /\ UNCHANGED searchVars

Next == Fill \/ Reorder \/ Splice \/ Render

Spec == Init /\ [][Next]_vars

----------------------------------------------------------------------------
(* SpecSearch: one call of reverse_binary_search_insert_index, stepwise *)

InitMainIdle ==
    /\ fatass_count = 0
    /\ walker = <<>>
    /\ pos = 1
    /\ biggest_files = <<>>
    /\ reordered = FALSE
    /\ pc = "idle"
    /\ tabled_files = <<>>
    /\ branch = "none"
    /\ sorts = 0

Slices == {[k \in 1..Len(q) |-> FileData(k, q[k])] : q \in SeqsUpTo(Sizes, MaxLen)}

InitSearch ==
    /\ arr \in Slices
    /\ target_size \in Sizes
    /\ low = 0
    /\ high = 0
    /\ result = NoReturn
    /\ s_pc = "entry"
    /\ InitMainIdle

(* lines 83-89 *)
SearchEntry ==
    /\ s_pc = "entry"
    /\ low' = 0
    /\ high' = Len(arr)
    /\ IF Len(arr) = 0
       THEN result' = Panic /\ s_pc' = "panicked"
       ELSE IF Rejects(arr, target_size)
            THEN result' = None /\ s_pc' = "returned"
            ELSE result' = result /\ s_pc' = "loop"
    /\ UNCHANGED <<arr, target_size>>
    /\ UNCHANGED mainVars

(* lines 91-98 *)
SearchIter ==
    /\ s_pc = "loop"
    /\ low # high
    /\ LET r == LoopBody(arr, target_size, low, high)
       IN  /\ low' = r.low
           /\ high' = r.high
           /\ result' = r.ret
           /\ s_pc' = IF r.ret # NoReturn THEN "returned" ELSE "loop"
    /\ UNCHANGED <<arr, target_size>>
    /\ UNCHANGED mainVars

(* line 101 *)
SearchExit ==
    /\ s_pc = "loop"
    /\ low = high
    /\ result' = Some(low)
    /\ s_pc' = "returned"
    /\ UNCHANGED <<arr, target_size, low, high>>
    /\ UNCHANGED mainVars

NextSearch == SearchEntry \/ SearchIter \/ SearchExit

(* The call runs in a sequential program: a step that can be taken is taken *)
SpecSearch == InitSearch /\ [][NextSearch]_vars /\ WF_vars(NextSearch)

----------------------------------------------------------------------------
(* Vocabulary of the properties *)

Offered(s) == Cardinality({k \in 1..Len(walker) : walker[k] = s})

OfferedGreater(s) == Cardinality({k \in 1..Len(walker) : walker[k] > s})

Held(s) == Cardinality({k \in 1..Len(biggest_files) : biggest_files[k].size = s})

OfferedSizes == {walker[k] : k \in 1..Len(walker)}

(* Number of entries of size s that a top-K selection retains *)
Kept(s) == Min2(Offered(s), Max2(0, fatass_count - OfferedGreater(s)))

SizesOf(v) == [k \in 1..Len(v) |-> v[k].size]

(* An offer was processed by this step *)
OfferStep == InLoop /\ pos' = pos + 1

----------------------------------------------------------------------------
(* C1: when at least K entries were offered, the list retained after the    *)
(* loop is the K largest offered sizes in descending order, of length K;    *)
(* K = 3 with [10, 50, 20, 5, 100, 30] ends as [100, 50, 30].               *)
C1_TopKOfStream ==
    (pc = "done" /\ Len(walker) >= fatass_count) =>
        /\ Len(biggest_files) = fatass_count
        /\ IsDesc(biggest_files)
        /\ \A s \in OfferedSizes : Held(s) = Kept(s)
        /\ (walker = Scenario1 /\ fatass_count = 3) =>
               SizesOf(biggest_files) = <<100, 50, 30>>

(* C2: with K = 0 the loop never aborts, whatever the number of entries,    *)
(* and the retained list is empty at the end.                               *)
C2_ZeroCapacityCompletes ==
    fatass_count = 0 =>
        /\ pc # "panicked"
        /\ pc = "done" => biggest_files = <<>>

(* C3: when fewer than K entries were offered, the rendered table holds     *)
(* all of them, in descending order of size.                                *)
C3_ShortStreamRenderedDescending ==
    (pc = "done" /\ Len(walker) < fatass_count) =>
        /\ Len(tabled_files) = Len(walker)
        /\ {tabled_files[k].Path : k \in 1..Len(tabled_files)} = 1..Len(walker)
        /\ \A i, j \in 1..Len(tabled_files) :
               i < j => walker[tabled_files[i].Path] >= walker[tabled_files[j].Path]

(* C4: for every size s the final list holds min(c, max(0, K - g)) entries  *)
(* of size s, c being the number offered of size s and g the number offered *)
(* of a strictly greater size.                                              *)
C4_EqualSizeCounts ==
    pc = "done" => \A s \in OfferedSizes : Held(s) = Kept(s)

(* C5: the length of biggest_files never exceeds K, and once it equals K    *)
(* it equals K after every later step.                                      *)
C5_LengthBounded ==
    /\ [](Len(biggest_files) <= fatass_count)
    /\ [][Len(biggest_files) = fatass_count =>
              Len(biggest_files') = fatass_count]_vars

C5_Witness ==
    /\ branch = "splice"
    /\ fatass_count >= 2
    /\ Len(biggest_files) = fatass_count

(* C6: once reordered is true, biggest_files is in descending order of     *)
(* size after every offer.                                                  *)
C6_SortedOnceReordered == reordered => IsDesc(biggest_files)

C6_Witness ==
    /\ reordered
    /\ branch = "splice"
    /\ Len(biggest_files) >= 3
    /\ biggest_files[1].size > biggest_files[3].size
    /\ biggest_files[2].path = pos - 1

(* C7: when the tracker holds K >= 1 entries, an offered entry strictly     *)
(* larger than every retained entry is at index 0 right after the offer.    *)
C7_NewMaximumAtFront ==
    [][(/\ OfferStep
        /\ fatass_count >= 1
        /\ Len(biggest_files) = fatass_count
        /\ \A k \in 1..Len(biggest_files) : walker[pos] > biggest_files[k].size)
       => biggest_files'[1].path = pos]_vars

(* C8: with K >= 1 entries held in descending order, an offer strictly      *)
(* smaller than the last entry leaves biggest_files unchanged; an offer     *)
(* equal to the last entry is not rejected by the minimum check, and once   *)
(* reordered it is stored.                                                  *)
C8_SmallerThanMinimumIgnored ==
    [][(/\ OfferStep
        /\ fatass_count >= 1
        /\ Len(biggest_files) = fatass_count
        /\ IsDesc(biggest_files))
       => LET s == walker[pos]
              m == biggest_files[Len(biggest_files)].size
          IN  /\ s < m => biggest_files' = biggest_files
              /\ s = m =>
                    /\ reverse_binary_search_insert_index(biggest_files, s)
                           \notin {None, Panic}
                    /\ reordered =>
                           \E k \in 1..Len(biggest_files') :
                               biggest_files'[k].path = pos]_vars

C8_Witness ==
    /\ reordered
    /\ branch = "skip"
    /\ fatass_count >= 1
    /\ Len(biggest_files) = fatass_count
    /\ walker[pos - 1] < biggest_files[Len(biggest_files)].size

(* C9: right after the K-th offer (K >= 1) biggest_files is already in      *)
(* descending order, and the sort is performed at most once.                *)
C9_SortedAtKthOffer ==
    /\ (fatass_count >= 1 /\ pos = fatass_count + 1 /\ Len(walker) >= fatass_count)
           => IsDesc(biggest_files)
    /\ sorts <= 1

----------------------------------------------------------------------------
(* Properties of the search *)

LastSize(a) == a[Len(a)].size

(* 0-based indices whose entry is not larger than t *)
NotLarger(a, t) == {i \in 0..(Len(a) - 1) : a[i + 1].size <= t}

SmallestNotLarger(a, t) ==
    CHOOSE i \in NotLarger(a, t) : \A j \in NotLarger(a, t) : i <= j

Occurrences(a, t) == Cardinality({i \in 1..Len(a) : a[i].size = t})

SearchCase == s_pc = "returned" /\ Len(arr) > 0 /\ IsDesc(arr)

(* C10, as stated: on a non-empty descending slice the search returns None  *)
(* exactly when the target is smaller than the last size, and otherwise     *)
(* Some(i) with i the smallest index whose size is <= target.               *)
C10_SmallestIndex ==
    SearchCase =>
        IF target_size < LastSize(arr)
        THEN result = None
        ELSE result = Some(SmallestNotLarger(arr, target_size))

(* C10, amended: the search terminates; it returns None exactly when the    *)
(* target is smaller than the last size, and otherwise Some(i) with         *)
(* arr[i].size <= target and arr[j].size >= target for every j < i; i is    *)
(* the smallest such index when the target occurs at most once in arr.      *)
C10_InsertionIndex ==
    /\ [](SearchCase =>
            IF target_size < LastSize(arr)
            THEN result = None
            ELSE /\ result[1] = "Some"
                 /\ result[2] \in NotLarger(arr, target_size)
                 /\ \A j \in 0..(result[2] - 1) : arr[j + 1].size >= target_size
                 /\ Occurrences(arr, target_size) <= 1 =>
                        result[2] = SmallestNotLarger(arr, target_size))
    /\ <>(s_pc \in {"returned", "panicked"})

C10_Witness ==
    /\ SearchCase
    /\ Len(arr) >= 3
    /\ result = Some(1)
    /\ arr[1].size = target_size
    /\ arr[2].size = target_size

====
